---- MODULE Spec2Model ----
(***************************************************************************)
(* Model of the video-info service: app/routes.py (GET /video-info/{id})   *)
(* and app/service.py (metadata, captions, audio-transcription fallback).  *)
(*                                                                         *)
(* Each worker process serves one request at a time (the handler is an     *)
(* async def whose body blocks).  The workers of one deployment share the  *)
(* working directory, the storage bucket, the transcription service and    *)
(* the wall clock.  One action is one call to an external collaborator     *)
(* together with the local code that runs up to the next such call.        *)
(***************************************************************************)
EXTENDS Integers, Sequences, FiniteSets, TLC

-----------------------------------------------------------------------------
(* Bounds of the model *)

\* number of worker processes a deployment may run
NumWorkers == 2
\* number of requests received in one behaviour
MaxRequests == 2
\* last second of the wall clock
MaxTime == 1

Workers == 1..NumWorkers

VideoIds == {"abc123", "xyz789"}

-----------------------------------------------------------------------------
(* Python values *)

\* a call that returned v / a call that raised Exception(msg)
Return(v) == [ok |-> TRUE, value |-> v]
Raise(msg) == [ok |-> FALSE, err |-> msg]

\* None is the empty tuple, any other optional value x is <<x>>
None == <<>>
Some(x) == <<x>>

\* dict.get(key, default)
Get(d, key, default) == IF key \in DOMAIN d THEN d[key] ELSE default

\* str() of an integral float, of an int, and of an optional string
StrFloat(n) == ToString(n) \o ".0"
StrInt(n) == ToString(n)
StrOpt(x) == IF x = None THEN "None" ELSE x[1]

\* a list and a str, told apart by their Python type; the text of a str is
\* kept in a tuple, so that a str and a list can always be compared
PyList(s) == [type |-> "list", value |-> s]
PyStr(s) == [type |-> "str", value |-> <<s>>]

RECURSIVE Join(_, _)
\* sep.join(words)
Join(sep, words) ==
    IF words = <<>> THEN ""
    ELSE IF Len(words) = 1 THEN words[1]
    ELSE words[1] \o sep \o Join(sep, Tail(words))

\* a path is kept as its directory and its base name
Path(dir, base) == [dir |-> dir, base |-> base]
basename(p) == p.base
StrPath(p) == p.dir \o "/" \o p.base
NoPath == Path("", "")

-----------------------------------------------------------------------------
(* format_transcript *)

\* variant: the entries are rendered last to first
format_transcript_reversed(transcript) ==
    [i \in 1..Len(transcript) |->
        StrFloat(transcript[Len(transcript) + 1 - i].start) \o ": "
            \o transcript[Len(transcript) + 1 - i].text]

format_transcript(transcript) ==
    [i \in 1..Len(transcript) |->
        StrFloat(transcript[i].start) \o ": " \o transcript[i].text]

-----------------------------------------------------------------------------
(* process_transcription_result *)

GroupSize == 5

\* one loop iteration; st = [grouped, current_segment, current_start_time, ok]
GroupStep(st, item) ==
    IF ~st.ok \/ Get(item, "type", "") # "pronunciation" THEN st
    ELSE LET alts == Get(item, "alternatives", <<[x \in {} |-> ""]>>) IN
         IF alts = <<>> THEN [st EXCEPT !.ok = FALSE]
         ELSE LET word == Get(alts[1], "content", "")
                  start_time == Get(item, "start_time", None)
                  cst == IF st.current_start_time = None THEN start_time
                         ELSE st.current_start_time
                  seg == Append(st.current_segment, word)
              IN IF Len(seg) >= GroupSize
                 THEN [st EXCEPT
                         !.grouped = Append(@, StrOpt(cst) \o ": " \o Join(" ", seg)),
                         !.current_segment = <<>>,
                         !.current_start_time = None]
                 ELSE [st EXCEPT !.current_segment = seg,
                                 !.current_start_time = cst]

RECURSIVE GroupLoop(_, _)
GroupLoop(st, items) ==
    IF items = <<>> THEN st
    ELSE GroupLoop(GroupStep(st, Head(items)), Tail(items))

\* variant: the segment left over after the loop is not appended
process_transcription_result_no_flush(transcript_result) ==
    LET transcript_items ==
            Get(Get(transcript_result, "results", [x \in {} |-> <<>>]), "items", <<>>)
        st == GroupLoop([grouped |-> <<>>, current_segment |-> <<>>,
                         current_start_time |-> None, ok |-> TRUE],
                        transcript_items)
    IN IF ~st.ok THEN Raise("list index out of range") ELSE Return(st.grouped)

process_transcription_result(transcript_result) ==
    LET transcript_items ==
            Get(Get(transcript_result, "results", [x \in {} |-> <<>>]), "items", <<>>)
        st == GroupLoop([grouped |-> <<>>, current_segment |-> <<>>,
                         current_start_time |-> None, ok |-> TRUE],
                        transcript_items)
    IN IF ~st.ok THEN Raise("list index out of range")
       ELSE IF st.current_segment # <<>>
            THEN Return(Append(st.grouped,
                     StrOpt(st.current_start_time) \o ": "
                        \o Join(" ", st.current_segment)))
            ELSE Return(st.grouped)

-----------------------------------------------------------------------------
(* get_video_details *)

Snippet(t, d, c) == [title |-> t, description |-> d, channelTitle |-> c]
Item(sn) == [snippet |-> sn]
EmptyDict == [x \in {} |-> ""]

\* what the metadata API may answer with: the HTTP status, the body text and
\* the JSON document of the body.  With part=snippet every item carries a
\* snippet with title, description and channelTitle.
MetadataDocs ==
    { EmptyDict,
      [items |-> <<>>],
      [items |-> <<Item(Snippet("T", "D", "C"))>>],
      [items |-> <<Item(Snippet("T2", "D2", "C2")), Item(Snippet("T", "D", "C"))>>] }

MetadataResponses ==
    { [status_code |-> 200, text |-> "", data |-> d] : d \in MetadataDocs }
    \cup { [status_code |-> 403, text |-> "quotaExceeded",
            data |-> [error |-> "quotaExceeded"]] }

\* requests.get either returns a response or raises
MetadataOutcomes ==
    { Return(r) : r \in MetadataResponses } \cup { Raise("ConnectionError") }

\* dict[key] inside the returned literal: the first missing key raises KeyError
SnippetFields(video_snippet) ==
    IF "title" \notin DOMAIN video_snippet THEN Raise("'title'")
    ELSE IF "description" \notin DOMAIN video_snippet THEN Raise("'description'")
    ELSE IF "channelTitle" \notin DOMAIN video_snippet THEN Raise("'channelTitle'")
    ELSE Return([title |-> video_snippet.title,
                 description |-> video_snippet.description,
                 channel |-> video_snippet.channelTitle])

\* variant: the snippet is taken from the last item
get_video_details_last_item(outcome) ==
    IF ~outcome.ok THEN outcome
    ELSE LET response == outcome.value
             data == response.data
         IN IF response.status_code # 200
            THEN Raise("Failed to fetch video info: "
                        \o StrInt(response.status_code) \o ", " \o response.text)
            ELSE IF "items" \notin DOMAIN data \/ Len(data.items) = 0
                 THEN Raise("No video found")
                 ELSE SnippetFields(data.items[Len(data.items)].snippet)

\* get_video_details, given the outcome of its one requests.get call
get_video_details(outcome) ==
    IF ~outcome.ok THEN outcome
    ELSE LET response == outcome.value
             data == response.data
         IN IF response.status_code # 200
            THEN Raise("Failed to fetch video info: "
                        \o StrInt(response.status_code) \o ", " \o response.text)
            ELSE IF "items" \notin DOMAIN data \/ Len(data.items) = 0
                 THEN Raise("No video found")
                 ELSE SnippetFields(data.items[1].snippet)

-----------------------------------------------------------------------------
(* What the external collaborators may answer *)

\* the two failures of the captions API that fetch_video_transcript catches
Recognized == {"NoTranscriptFound", "TranscriptsDisabled"}

Entry(s, t) == [start |-> s, duration |-> 2, text |-> t]

Captions ==
    { <<>>,
      <<Entry(0, "hello")>>,
      <<Entry(0, "hello"), Entry(5, "world")>> }

\* YouTubeTranscriptApi.get_transcript returns the captions or raises
CaptionOutcomes ==
    { Return(c) : c \in Captions }
    \cup { Raise(k) : k \in Recognized \cup {"VideoUnavailable"} }

Word(w, t) == [type |-> "pronunciation", alternatives |-> <<[content |-> w]>>,
               start_time |-> Some(t)]
Punct(c) == [type |-> "punctuation", alternatives |-> <<[content |-> c]>>]
Doc(items) == [results |-> [items |-> items]]

SevenWords ==
    <<Word("w1", "0.0"), Word("w2", "0.4"), Punct(","), Word("w3", "0.9"),
      Word("w4", "1.3"), Word("w5", "1.8"), Punct("."), Word("w6", "2.5"),
      Word("w7", "2.9")>>

\* the result documents the transcription service may serve; the last one
\* has an item whose list of alternatives is empty
ResultDocs ==
    { EmptyDict,
      Doc(<<Word("w1", "0.0"), Word("w2", "0.4"), Punct(".")>>),
      Doc(SevenWords),
      Doc(<<[type |-> "pronunciation", alternatives |-> <<>>]>>) }

ResultOutcomes == { Return(d) : d \in ResultDocs } \cup { Raise("JSONDecodeError") }

\* what yt-dlp leaves behind: it raises, or writes the file at the template
\* path, or at the template path with the codec extension appended, or
\* writes nothing
DownloadOutcomes == {"DownloadError", "exact", "suffixed", "nothing"}

-----------------------------------------------------------------------------
(* State *)

VARIABLES
    procs,       \* the worker processes of this deployment
    served,      \* number of requests received so far
    now,         \* int(time.time())
    files,       \* the working directory: path -> number of the request that wrote it
    bucket,      \* object storage: <<bucket, key>> -> number of the request whose audio it is
    jobs,        \* the transcription service: job name -> status
    pc,          \* per worker: the call it is about to make
    req,         \* per worker: number of the request it serves
    video_id,    \* per worker: the path parameter
    video_info,  \* per worker: the dict built by get_video_details
    audio_file,  \* per worker: the path download_audio returned
    s3_uri,      \* per worker: the URI built by upload_to_s3
    job_name,    \* per worker: the name built at service.py:96
    calls,       \* per worker: how often each collaborator was called for the request
    metadata_result,   \* per worker: what get_video_details returned or raised
    captions_result,   \* per worker: what get_transcript returned or raised
    transcript_result, \* per worker: what fetch_video_transcript returned or raised
    resp,        \* per worker: the HTTP response of the request
    metadata_outcome,  \* per worker: what requests.get returned or raised
    fn,          \* a function applied on its own: its name,
    fn_in,       \*   its arguments
    fn_out       \*   and what it returned or raised

shared == <<procs, served, now, files, bucket, jobs>>
locals == <<pc, req, video_id, video_info, audio_file, s3_uri, job_name, calls,
           metadata_result, captions_result, transcript_result, resp,
           metadata_outcome>>
applied == <<fn, fn_in, fn_out>>
vars == <<procs, served, now, files, bucket, jobs,
          pc, req, video_id, video_info, audio_file, s3_uri, job_name, calls,
          metadata_result, captions_result, transcript_result, resp,
          metadata_outcome, fn, fn_in, fn_out>>

Stages == {"metadata", "captions", "download", "upload", "start_job", "poll",
           "result", "group"}

NoCalls == [s \in Stages |-> 0]
NoResp == [status |-> 0]
\* the call was not made yet
NotCalled == [ok |-> FALSE, err |-> ""]

Cwd == "/app"
PLACEHOLDER == "Transcript could not be fetched."

InitLocals ==
    /\ pc = [w \in Workers |-> "idle"]
    /\ req = [w \in Workers |-> 0]
    /\ video_id = [w \in Workers |-> ""]
    /\ video_info = [w \in Workers |-> EmptyDict]
    /\ audio_file = [w \in Workers |-> NoPath]
    /\ s3_uri = [w \in Workers |-> ""]
    /\ job_name = [w \in Workers |-> ""]
    /\ calls = [w \in Workers |-> NoCalls]
    /\ metadata_result = [w \in Workers |-> NotCalled]
    /\ captions_result = [w \in Workers |-> NotCalled]
    /\ transcript_result = [w \in Workers |-> NotCalled]
    /\ resp = [w \in Workers |-> NoResp]
    /\ metadata_outcome = [w \in Workers |-> NotCalled]

InitShared ==
    /\ served = 0
    /\ now = 0
    /\ files = EmptyDict
    /\ bucket = EmptyDict
    /\ jobs = EmptyDict

\* no function is applied on its own
NotApplied ==
    /\ fn = ""
    /\ fn_in = <<>>
    /\ fn_out = NotCalled

\* one process (uvicorn's default)
Init == procs = {1} /\ InitShared /\ InitLocals /\ NotApplied

\* several processes (uvicorn --workers N) started in the same directory
InitWorkers == procs = Workers /\ InitShared /\ InitLocals /\ NotApplied

-----------------------------------------------------------------------------
(* Local code between the calls *)

Put(f, k, v) == [x \in DOMAIN f \cup {k} |-> IF x = k THEN v ELSE f[x]]
Del(f, k) == [x \in DOMAIN f \ {k} |-> f[x]]
Called(c, stage) == [c EXCEPT ![stage] = @ + 1]

\* variant: the except clause names NoTranscriptFound only
captions_branch_notfound_only(outcome) ==
    IF outcome.ok THEN "return"
    ELSE IF outcome.err = "NoTranscriptFound" THEN "fallback"
    ELSE "raise"

\* variant: the first try block does not return, control falls through
captions_branch_no_return(outcome) ==
    IF outcome.ok \/ outcome.err \in Recognized THEN "fallback" ELSE "raise"

\* variant: a bare except, every failure of the captions call falls back
captions_branch_catch_all(outcome) ==
    IF outcome.ok THEN "return" ELSE "fallback"

\* fetch_video_transcript, first try block: the captions call returned or
\* raised.  "return": the function returns the formatted captions;
\* "fallback": the except clause matched and the second try block runs;
\* "raise": the exception leaves fetch_video_transcript.
captions_branch(outcome) ==
    IF outcome.ok THEN "return"
    ELSE IF outcome.err \in Recognized THEN "fallback"
    ELSE "raise"

\* fetch_video_transcript, except clause of the second try block
fallback_except(e) == Raise("Failed to fetch transcript via fallback: " \o e)

\* variant: no try around step 2, a transcript failure leaves fetch_video_info
attach_transcript_reraise(info, result) ==
    IF result.ok
    THEN Return(info @@ [transcript |-> PyList(result.value)])
    ELSE result

\* variant: the except clause only logs
attach_transcript_pass(info, result) ==
    IF result.ok
    THEN Return(info @@ [transcript |-> PyList(result.value)])
    ELSE Return(info)

\* fetch_video_info, step 2: result is what fetch_video_transcript returned
\* or raised; the value is what fetch_video_info returns or raises
attach_transcript(info, result) ==
    IF result.ok
    THEN Return(info @@ [transcript |-> PyList(result.value)])
    ELSE Return(info @@ [transcript |-> PyStr(PLACEHOLDER)])

\* variant: the handler answers 500 with a fixed detail
get_video_info_fixed_detail(result) ==
    IF result.ok
    THEN [status |-> 200, body |-> result.value]
    ELSE [status |-> 500, detail |-> "Internal Server Error"]

\* get_video_info: result is what fetch_video_info returned or raised
get_video_info(result) ==
    IF result.ok
    THEN [status |-> 200, body |-> result.value]
    ELSE [status |-> 500, detail |-> result.err]

\* fetch_video_transcript has returned or raised `result`: fetch_video_info
\* attaches the transcript and returns, and the route answers
Finish(w, result) ==
    LET returned == attach_transcript(video_info[w], result) IN
    /\ transcript_result' = [transcript_result EXCEPT ![w] = result]
    /\ video_info' = [video_info EXCEPT ![w] =
                        IF returned.ok THEN returned.value ELSE @]
    /\ resp' = [resp EXCEPT ![w] = get_video_info(returned)]
    /\ pc' = [pc EXCEPT ![w] = "done"]

-----------------------------------------------------------------------------
(* Actions *)

\* a worker that is not serving a request receives GET /video-info/{v}
Receive(w, v) ==
    /\ w \in procs
    /\ pc[w] \in {"idle", "done"}
    /\ served < MaxRequests
    /\ served' = served + 1
    /\ req' = [req EXCEPT ![w] = served + 1]
    /\ video_id' = [video_id EXCEPT ![w] = v]
    /\ video_info' = [video_info EXCEPT ![w] = EmptyDict]
    /\ audio_file' = [audio_file EXCEPT ![w] = NoPath]
    /\ s3_uri' = [s3_uri EXCEPT ![w] = ""]
    /\ job_name' = [job_name EXCEPT ![w] = ""]
    /\ calls' = [calls EXCEPT ![w] = NoCalls]
    /\ metadata_result' = [metadata_result EXCEPT ![w] = NotCalled]
    /\ captions_result' = [captions_result EXCEPT ![w] = NotCalled]
    /\ transcript_result' = [transcript_result EXCEPT ![w] = NotCalled]
    /\ resp' = [resp EXCEPT ![w] = NoResp]
    /\ metadata_outcome' = [metadata_outcome EXCEPT ![w] = NotCalled]
    /\ pc' = [pc EXCEPT ![w] = "details"]
    /\ UNCHANGED <<procs, now, files, bucket, jobs, applied>>

\* fetch_video_info, step 1
GetVideoDetails(w) ==
    /\ pc[w] = "details"
    /\ \E o \in MetadataOutcomes :
         LET res == get_video_details(o) IN
         /\ calls' = [calls EXCEPT ![w] = Called(@, "metadata")]
         /\ metadata_result' = [metadata_result EXCEPT ![w] = res]
         /\ metadata_outcome' = [metadata_outcome EXCEPT ![w] = o]
         /\ IF res.ok
            THEN /\ video_info' = [video_info EXCEPT ![w] = res.value]
                 /\ pc' = [pc EXCEPT ![w] = "captions"]
                 /\ resp' = resp
            ELSE /\ resp' = [resp EXCEPT ![w] = get_video_info(res)]
                 /\ pc' = [pc EXCEPT ![w] = "done"]
                 /\ video_info' = video_info
    /\ UNCHANGED <<shared, req, video_id, audio_file, s3_uri, job_name,
                   captions_result, transcript_result, applied>>

\* fetch_video_transcript, first try block
GetTranscript(w) ==
    /\ pc[w] = "captions"
    /\ \E o \in CaptionOutcomes :
         /\ calls' = [calls EXCEPT ![w] = Called(@, "captions")]
         /\ CASE captions_branch(o) = "return" ->
                    Finish(w, Return(format_transcript(o.value)))
              [] captions_branch(o) = "fallback" ->
                    /\ pc' = [pc EXCEPT ![w] = "download"]
                    /\ UNCHANGED <<video_info, resp, transcript_result>>
              [] OTHER ->
                    Finish(w, o)
         /\ captions_result' = [captions_result EXCEPT ![w] = o]
    /\ UNCHANGED <<shared, req, video_id, audio_file, s3_uri, job_name,
                   metadata_result, metadata_outcome, applied>>

-----------------------------------------------------------------------------
(* The fallback chain: second try block of fetch_video_transcript *)

PollInterval == 5

Min(a, b) == IF a < b THEN a ELSE b

\* an exception raised inside the second try block
FallbackFail(w, e) == Finish(w, fallback_except(e))

output_path(v) == Path(Cwd, v \o ".mp3")
with_mp3(p) == Path(p.dir, p.base \o ".mp3")

\* the working directory after ydl.extract_info ran for request r
extract_info(fs, p, outcome, r) ==
    CASE outcome = "exact" -> Put(fs, p, r)
      [] outcome = "suffixed" -> Put(fs, with_mp3(p), r)
      [] OTHER -> fs

\* variant: the existence check at the end of download_audio is left out
download_audio_unchecked(fs, v, outcome) ==
    IF outcome = "DownloadError"
    THEN Raise("Failed to download audio: " \o outcome)
    ELSE Return(output_path(v))

\* download_audio, given the tool's outcome and the directory fs it left
download_audio(fs, v, outcome) ==
    IF outcome = "DownloadError"
    THEN Raise("Failed to download audio: " \o outcome)
    ELSE LET final_path == IF output_path(v) \in DOMAIN fs THEN output_path(v)
                           ELSE with_mp3(output_path(v))
         IN IF final_path \notin DOMAIN fs
            THEN Raise("Failed to download audio: File was not created: "
                        \o StrPath(final_path))
            ELSE Return(final_path)

DownloadAudio(w) ==
    /\ pc[w] = "download"
    /\ \E o \in DownloadOutcomes :
         LET fs == extract_info(files, output_path(video_id[w]), o, req[w])
             res == download_audio(fs, video_id[w], o)
         IN /\ files' = fs
            /\ calls' = [calls EXCEPT ![w] = Called(@, "download")]
            /\ IF res.ok
               THEN /\ audio_file' = [audio_file EXCEPT ![w] = res.value]
                    /\ pc' = [pc EXCEPT ![w] = "exists"]
                    /\ UNCHANGED <<video_info, resp, transcript_result>>
               ELSE /\ FallbackFail(w, res.err)
                    /\ UNCHANGED audio_file
    /\ UNCHANGED <<procs, served, now, bucket, jobs,
                   req, video_id, s3_uri, job_name,
                   metadata_result, captions_result,
                   metadata_outcome, applied>>

\* fetch_video_transcript: if not os.path.exists(audio_file)
CheckExists(w) ==
    /\ pc[w] = "exists"
    /\ IF audio_file[w] \in DOMAIN files
       THEN /\ pc' = [pc EXCEPT ![w] = "upload"]
            /\ UNCHANGED <<video_info, resp, transcript_result>>
       ELSE FallbackFail(w, "Audio file not found: " \o StrPath(audio_file[w]))
    /\ UNCHANGED <<shared, req, video_id, audio_file, s3_uri, job_name, calls,
                   metadata_result, captions_result,
                   metadata_outcome, applied>>

\* the bucket fetch_video_transcript passes and the one put_object writes to
bucket_name == "learningmodeai-transcription"
put_bucket == "learningmodeai-transcription"

object_key(file_path, object_name) ==
    IF object_name = None THEN basename(file_path) ELSE object_name[1]

file_uri(b, key) == "s3://" \o b \o "/" \o key

\* upload_to_s3 up to put_object: the error raised inside the try block, "" if none
upload_error(fs, file_path, outcome) ==
    IF outcome = "ListBucketsError" THEN outcome
    ELSE IF file_path \notin DOMAIN fs THEN "FileNotFoundError"
    ELSE IF outcome = "PutObjectError" THEN outcome
    ELSE ""

\* variant: the except clause of upload_to_s3 removes the local file
files_after_failed_upload_cleanup(fs, file_path) == Del(fs, file_path)

\* variant: os.remove is given the object key instead of the path
os_remove_key(fs, file_path) == Del(fs, Path("", basename(file_path)))

\* the working directory when upload_to_s3 raises before os.remove
files_after_failed_upload(fs, file_path) == fs

\* os.remove(file_path)
os_remove(fs, file_path) == Del(fs, file_path)

UploadPut(w) ==
    /\ pc[w] = "upload"
    /\ \E o \in {"ok", "ListBucketsError", "PutObjectError"} :
         LET key == object_key(audio_file[w], None)
             e == upload_error(files, audio_file[w], o)
         IN /\ calls' = [calls EXCEPT ![w] = Called(@, "upload")]
            /\ IF e = ""
               THEN /\ bucket' = Put(bucket, <<put_bucket, key>>, files[audio_file[w]])
                    /\ s3_uri' = [s3_uri EXCEPT ![w] = file_uri(bucket_name, key)]
                    /\ pc' = [pc EXCEPT ![w] = "remove"]
                    /\ UNCHANGED <<files, video_info, resp, transcript_result>>
               ELSE /\ files' = files_after_failed_upload(files, audio_file[w])
                    /\ FallbackFail(w, "Failed to upload file to S3: " \o e)
                    /\ UNCHANGED <<bucket, s3_uri>>
    /\ UNCHANGED <<procs, served, now, jobs,
                   req, video_id, audio_file, job_name,
                   metadata_result, captions_result,
                   metadata_outcome, applied>>

\* upload_to_s3 from os.remove to its return, then the job name is built
UploadRemove(w) ==
    /\ pc[w] = "remove"
    /\ \E o \in {"ok", "PermissionError"} :
         LET e == IF audio_file[w] \notin DOMAIN files THEN "FileNotFoundError"
                  ELSE IF o = "PermissionError" THEN o ELSE ""
         IN IF e = ""
            THEN /\ files' = os_remove(files, audio_file[w])
                 /\ job_name' = [job_name EXCEPT ![w] =
                       "transcription-" \o video_id[w] \o "-" \o StrInt(now)]
                 /\ pc' = [pc EXCEPT ![w] = "start_job"]
                 /\ UNCHANGED <<video_info, resp, transcript_result>>
            ELSE /\ FallbackFail(w, "Failed to upload file to S3: " \o e)
                 /\ UNCHANGED <<files, job_name>>
    /\ UNCHANGED <<procs, served, now, bucket, jobs,
                   req, video_id, audio_file, s3_uri, calls,
                   metadata_result, captions_result,
                   metadata_outcome, applied>>

-----------------------------------------------------------------------------
(* transcribe_audio *)

Terminal == {"COMPLETED", "FAILED"}

\* transcribe_audio, except clause
transcribe_except(e) == "Failed to transcribe audio: " \o e

\* start_transcription_job: a name already in use is refused
StartJob(w) ==
    /\ pc[w] = "start_job"
    /\ \E o \in {"ok", "ClientError"} :
         LET e == IF job_name[w] \in DOMAIN jobs THEN "ConflictException"
                  ELSE IF o = "ClientError" THEN o ELSE ""
         IN /\ calls' = [calls EXCEPT ![w] = Called(@, "start_job")]
            /\ IF e = ""
               THEN /\ jobs' = Put(jobs, job_name[w], "QUEUED")
                    /\ pc' = [pc EXCEPT ![w] = "poll"]
                    /\ UNCHANGED <<video_info, resp, transcript_result>>
               ELSE /\ FallbackFail(w, transcribe_except(e))
                    /\ UNCHANGED jobs
    /\ UNCHANGED <<procs, served, now, files, bucket,
                   req, video_id, audio_file, s3_uri, job_name,
                   metadata_result, captions_result,
                   metadata_outcome, applied>>

\* variant: the loop ends on every status but FAILED
poll_branch_not_failed(status) ==
    IF status = "FAILED" THEN "raise" ELSE "result"

\* variant: FAILED is not in the list of final statuses
poll_branch_completed_only(status) ==
    IF status = "COMPLETED" THEN "result" ELSE "sleep"

\* what one pass of the while loop does with the status it read
poll_branch(status) ==
    IF status \in Terminal
    THEN IF status = "COMPLETED" THEN "result" ELSE "raise"
    ELSE "sleep"

\* one pass of the while loop: get_transcription_job, then return, raise or sleep
Poll(w) ==
    /\ pc[w] = "poll"
    /\ \E o \in {"ok", "ClientError"} :
         /\ calls' = [calls EXCEPT ![w]["poll"] = 1]
         /\ IF o # "ok"
            THEN FallbackFail(w, transcribe_except(o)) /\ UNCHANGED now
            ELSE CASE poll_branch(jobs[job_name[w]]) = "result" ->
                        /\ pc' = [pc EXCEPT ![w] = "result"]
                        /\ UNCHANGED <<now, video_info, resp, transcript_result>>
                   [] poll_branch(jobs[job_name[w]]) = "raise" ->
                        /\ FallbackFail(w, transcribe_except("Transcription job failed."))
                        /\ UNCHANGED now
                   [] OTHER ->
                        /\ now' = Min(now + PollInterval, MaxTime)
                        /\ UNCHANGED <<pc, video_info, resp, transcript_result>>
    /\ UNCHANGED <<procs, served, files, bucket, jobs,
                   req, video_id, audio_file, s3_uri, job_name,
                   metadata_result, captions_result,
                   metadata_outcome, applied>>

\* requests.get(transcript_uri).json(), then process_transcription_result
FetchResult(w) ==
    /\ pc[w] = "result"
    /\ \E o \in ResultOutcomes :
         IF ~o.ok
         THEN /\ calls' = [calls EXCEPT ![w] = Called(@, "result")]
              /\ FallbackFail(w, transcribe_except(o.err))
         ELSE LET res == process_transcription_result(o.value) IN
              /\ calls' = [calls EXCEPT ![w] = Called(Called(@, "result"), "group")]
              /\ IF res.ok THEN Finish(w, res) ELSE FallbackFail(w, res.err)
    /\ UNCHANGED <<shared, req, video_id, audio_file, s3_uri, job_name,
                   metadata_result, captions_result,
                   metadata_outcome, applied>>

-----------------------------------------------------------------------------
(* The environment *)

\* a second passes
Tick ==
    /\ now < MaxTime
    /\ now' = now + 1
    /\ UNCHANGED <<procs, served, files, bucket, jobs, locals, applied>>

\* the transcription service works on job j
JobProgress(j) ==
    /\ j \in DOMAIN jobs
    /\ \/ jobs[j] = "QUEUED" /\ jobs' = [jobs EXCEPT ![j] = "IN_PROGRESS"]
       \/ jobs[j] = "IN_PROGRESS" /\ jobs' = [jobs EXCEPT ![j] = "COMPLETED"]
       \/ jobs[j] \notin Terminal /\ jobs' = [jobs EXCEPT ![j] = "FAILED"]
    /\ UNCHANGED <<procs, served, now, files, bucket, locals, applied>>

JobNames == { "transcription-" \o v \o "-" \o StrInt(t) : v \in VideoIds, t \in 0..MaxTime }

-----------------------------------------------------------------------------
(* Specifications *)

Next ==
    \/ \E w \in Workers, v \in VideoIds : Receive(w, v)
    \/ \E w \in Workers : GetVideoDetails(w)
    \/ \E w \in Workers : GetTranscript(w)
    \/ \E w \in Workers : DownloadAudio(w)
    \/ \E w \in Workers : CheckExists(w)
    \/ \E w \in Workers : UploadPut(w)
    \/ \E w \in Workers : UploadRemove(w)
    \/ \E w \in Workers : StartJob(w)
    \/ \E w \in Workers : Poll(w)
    \/ \E w \in Workers : FetchResult(w)
    \/ Tick
    \/ \E j \in JobNames : JobProgress(j)

\* one worker process
Spec == Init /\ [][Next]_vars

\* several worker processes sharing the working directory
SpecWorkers == InitWorkers /\ [][Next]_vars

\* a pass of the while loop whose get_transcription_job call returned
PollAnswered(w) ==
    Poll(w) /\ transcript_result'[w] # fallback_except(transcribe_except("ClientError"))

\* a worker inside transcribe_audio keeps running, its calls being answered,
\* and the transcription service keeps working on every job it accepted
Fairness ==
    /\ \A w \in Workers : WF_vars(PollAnswered(w)) /\ WF_vars(FetchResult(w))
    /\ \A j \in JobNames : WF_vars(JobProgress(j))

\* one process about to receive the last request of the behaviour, the
\* earlier ones having left nothing behind (they were served from captions)
InitLast ==
    /\ procs = {1}
    /\ served = MaxRequests - 1
    /\ now = 0
    /\ files = EmptyDict
    /\ bucket = EmptyDict
    /\ jobs = EmptyDict
    /\ InitLocals
    /\ NotApplied

\* one worker process serving one request, under Fairness
SpecFair == InitLast /\ [][Next]_vars /\ Fairness

-----------------------------------------------------------------------------
(* The functions of the module applied on their own *)

\* longest list of items given to process_transcription_result
MaxItems == 11

\* the i-th item of a result document: a word or a punctuation mark
ItemAt(i, is_word) ==
    IF is_word THEN Word("w" \o ToString(i), ToString(i) \o ".5") ELSE Punct(".")

\* result documents: every interleaving of up to MaxItems words and marks,
\* and a document without results
GrouperInputs ==
    { EmptyDict }
    \cup UNION { { Doc([i \in 1..n |-> ItemAt(i, m[i])]) : m \in [1..n -> BOOLEAN] } :
                  n \in 0..MaxItems }

\* longest caption list given to format_transcript
MaxEntries == 3

\* caption lists: every list of up to MaxEntries entries, starts and texts
\* repeated or not, a text that itself holds ": "
FormatInputs ==
    UNION { [1..n -> { Entry(s, t) : s \in {0, 5}, t \in {"hello", "world", "a: b"} }] :
              n \in 0..MaxEntries }

\* arguments of upload_to_s3, with what the storage service and os.remove do
UploadInputs ==
    [file_path : {Path(Cwd, "abc123.mp3")},
     bucket_name : {"learningmodeai-transcription", "other-bucket"},
     object_name : {None, Some("audio/abc123.mp3")},
     outcome : {"ok", "ListBucketsError", "PutObjectError", "PermissionError"}]

InitApplied ==
    /\ procs = {}
    /\ served = 0
    /\ now = 0
    /\ bucket = EmptyDict
    /\ jobs = EmptyDict
    /\ InitLocals
    /\ fn_out = NotCalled
    /\ \/ fn = "process_transcription_result" /\ fn_in \in GrouperInputs
          /\ files = EmptyDict
       \/ fn = "format_transcript" /\ fn_in \in FormatInputs
          /\ files = EmptyDict
       \/ fn = "upload_to_s3" /\ fn_in \in UploadInputs
          /\ files \in {EmptyDict, Put(EmptyDict, fn_in.file_path, 0)}

Apply_process_transcription_result ==
    /\ fn = "process_transcription_result"
    /\ fn_out = NotCalled
    /\ fn_out' = process_transcription_result(fn_in)
    /\ UNCHANGED <<shared, locals, fn, fn_in>>

Apply_format_transcript ==
    /\ fn = "format_transcript"
    /\ fn_out = NotCalled
    /\ fn_out' = Return(format_transcript(fn_in))
    /\ UNCHANGED <<shared, locals, fn, fn_in>>

\* upload_to_s3(file_path, bucket_name, object_name), from entry to return
Apply_upload_to_s3 ==
    /\ fn = "upload_to_s3"
    /\ fn_out = NotCalled
    /\ LET key == object_key(fn_in.file_path, fn_in.object_name)
           e == upload_error(files, fn_in.file_path, fn_in.outcome)
       IN IF e # ""
          THEN /\ files' = files_after_failed_upload(files, fn_in.file_path)
               /\ fn_out' = Raise("Failed to upload file to S3: " \o e)
               /\ UNCHANGED bucket
          ELSE /\ bucket' = Put(bucket, <<put_bucket, key>>, files[fn_in.file_path])
               /\ IF fn_in.outcome = "PermissionError"
                  THEN /\ fn_out' = Raise("Failed to upload file to S3: " \o fn_in.outcome)
                       /\ UNCHANGED files
                  ELSE /\ files' = os_remove(files, fn_in.file_path)
                       /\ fn_out' = Return(file_uri(fn_in.bucket_name, key))
    /\ UNCHANGED <<procs, served, now, jobs, locals, fn, fn_in>>

NextApplied ==
    \/ Apply_process_transcription_result
    \/ Apply_format_transcript
    \/ Apply_upload_to_s3

\* every function applied once to one of its inputs
SpecApplied == InitApplied /\ [][NextApplied]_vars

-----------------------------------------------------------------------------
(* Properties *)

FallbackStages == {"download", "upload", "start_job", "poll", "result", "group"}

\* the captions call of worker w raised an error of the set errs
CaptionsRaised(w, errs) ==
    ~captions_result[w].ok /\ captions_result[w].err \in errs

\* the captions call of worker w raised an error that is not caught by name
CaptionsRaisedOther(w) ==
    /\ captions_result[w] # NotCalled
    /\ ~captions_result[w].ok
    /\ captions_result[w].err \notin Recognized

\* C1: once the captions call of a request has raised NoTranscriptFound or
\* TranscriptsDisabled, the captions API has been called exactly once for the
\* request, download_audio is called exactly once (it is the next call, and
\* it has been made at every later point), and no later step of the chain
\* (upload, job submission, result fetch, grouping) runs more than once.
C1_FallbackStartedOnce ==
    \A w \in Workers :
        CaptionsRaised(w, Recognized) =>
            /\ calls[w]["captions"] = 1
            /\ calls[w]["download"] = (IF pc[w] = "download" THEN 0 ELSE 1)
            /\ \A s \in {"upload", "start_job", "result", "group"} : calls[w][s] <= 1

C1_Witness ==
    \E w \in Workers :
        /\ CaptionsRaised(w, {"TranscriptsDisabled"})
        /\ pc[w] = "done"
        /\ calls[w]["download"] = 1
        /\ calls[w]["group"] = 1

\* the lines "<start>: <text>" of a list of caption entries
CaptionLines(c) ==
    [i \in 1..Len(c) |-> ToString(c[i].start) \o ".0" \o ": " \o c[i].text]

\* C2: once the captions call has returned, the request has terminated with
\* status 200, its transcript is the list of the formatted captions, and no
\* step of the fallback chain was executed for it.
C2_CaptionsSuccessNoFallback ==
    \A w \in Workers :
        captions_result[w].ok =>
            /\ pc[w] = "done"
            /\ resp[w].status = 200
            /\ resp[w].body.transcript = PyList(CaptionLines(captions_result[w].value))
            /\ \A s \in FallbackStages : calls[w][s] = 0

C2_Witness ==
    \E w \in Workers :
        /\ captions_result[w].ok
        /\ pc[w] = "done"
        /\ resp[w].body.transcript = PyList(<<"0.0: hello", "5.0: world">>)

\* C3: when the captions call raised an error other than NoTranscriptFound and
\* TranscriptsDisabled, no step of the fallback chain is executed.
C3_OtherErrorNoFallback ==
    \A w \in Workers :
        CaptionsRaisedOther(w) => \A s \in FallbackStages : calls[w][s] = 0

C3_Witness ==
    \E w \in Workers : CaptionsRaised(w, {"VideoUnavailable"}) /\ pc[w] = "done"

\* C4: a request whose captions call raised an unrecognized error ends with
\* HTTP 500.
C4_UnrecognizedErrorIs500 ==
    \A w \in Workers :
        (pc[w] = "done" /\ CaptionsRaisedOther(w)) => resp[w].status = 500

\* C5: when get_video_details raised, the request has ended with HTTP 500 whose
\* detail is the message of the error, and neither the captions API nor any
\* fallback step was called.
C5_MetadataFailureIs500 ==
    \A w \in Workers :
        (metadata_result[w] # NotCalled /\ ~metadata_result[w].ok) =>
            /\ pc[w] = "done"
            /\ resp[w] = [status |-> 500, detail |-> metadata_result[w].err]
            /\ \A s \in Stages \ {"metadata"} : calls[w][s] = 0

C5_Witness ==
    \E w \in Workers :
        /\ pc[w] = "done"
        /\ calls[w]["metadata"] = 1
        /\ resp[w] = [status |-> 500, detail |-> "No video found"]

\* the request of worker w entered the fallback chain and the chain raised
FallbackFailed(w) ==
    /\ pc[w] = "done"
    /\ calls[w]["download"] = 1
    /\ ~transcript_result[w].ok

FallbackError(e) == "Failed to fetch transcript via fallback: " \o e

\* C6: a request whose fallback chain raised, at whatever step, ends with
\* HTTP 200 whose body holds the title, description and channel that
\* get_video_details returned and the transcript "Transcript could not be
\* fetched."
C6_FallbackFailureIsPlaceholder ==
    \A w \in Workers :
        FallbackFailed(w) =>
            /\ metadata_result[w].ok
            /\ resp[w] =
                 [status |-> 200,
                  body |-> [title |-> metadata_result[w].value.title,
                            description |-> metadata_result[w].value.description,
                            channel |-> metadata_result[w].value.channel,
                            transcript |-> [type |-> "str",
                                            value |-> <<"Transcript could not be fetched.">>]]]

C6_Witness ==
    \E w \in Workers :
        /\ FallbackFailed(w)
        /\ transcript_result[w].err
             = FallbackError("Failed to transcribe audio: Transcription job failed.")
        /\ resp[w].status = 200
        /\ resp[w].body.title = "T2"

\* a 200 response: all four fields, the transcript a list or the placeholder
Is200(r) ==
    /\ r.status = 200
    /\ DOMAIN r = {"status", "body"}
    /\ DOMAIN r.body = {"title", "description", "channel", "transcript"}
    /\ \/ r.body.transcript.type = "list"
       \/ r.body.transcript = PyStr(PLACEHOLDER)

\* a 500 response: a detail
Is500(r) ==
    /\ r.status = 500
    /\ DOMAIN r = {"status", "detail"}

\* C7: a request that has terminated has exactly one of the two outcomes, 200
\* with title, description, channel and transcript (a list or the
\* placeholder) or 500 with a detail; a request that has not terminated has
\* no response.
C7_TwoOutcomes ==
    \A w \in Workers :
        IF pc[w] = "done"
        THEN Is200(resp[w]) # Is500(resp[w])
        ELSE resp[w] = NoResp

C7_Witness ==
    \E w \in Workers :
        /\ pc[w] = "done"
        /\ Is200(resp[w])
        /\ resp[w].body.transcript.type = "list"
        /\ Len(resp[w].body.transcript.value) = 2
        /\ calls[w]["group"] = 1

\* upload_to_s3 has returned its URI to fetch_video_transcript
UploadReturned(w) == job_name[w] # ""

\* C8: once upload_to_s3 has returned a URI, no file exists at the path it was
\* given, up to the end of the request.
C8_NoFileAfterUpload ==
    \A w \in Workers :
        UploadReturned(w) => audio_file[w] \notin DOMAIN files

C8_Witness ==
    \E w \in Workers :
        /\ UploadReturned(w)
        /\ pc[w] = "start_job"
        /\ <<put_bucket, basename(audio_file[w])>> \in DOMAIN bucket
        /\ audio_file[w] \notin DOMAIN files

UploadErrors ==
    { FallbackError("Failed to upload file to S3: " \o e) :
        e \in {"ListBucketsError", "FileNotFoundError", "PutObjectError"} }

\* C9: a step in which upload_to_s3 fails at the bucket listing, at open or at
\* put_object raises "Failed to upload file to S3: ..." and leaves the
\* working directory as it was.
C9_FailedUploadKeepsFile ==
    [][\A w \in Workers :
         (pc[w] = "upload" /\ pc'[w] = "done") =>
            /\ ~transcript_result'[w].ok
            /\ transcript_result'[w].err \in UploadErrors
            /\ files' = files]_vars

C9_Witness ==
    \E w \in Workers :
        /\ pc[w] = "done"
        /\ transcript_result[w]
             = Raise(FallbackError("Failed to upload file to S3: PutObjectError"))
        /\ audio_file[w] \in DOMAIN files
        /\ files[audio_file[w]] = req[w]

\* C10: a request that created a local audio file has removed it by the time
\* it terminates.
C10_FileRemovedOnEveryExit ==
    \A w \in Workers :
        (pc[w] = "done" /\ audio_file[w] # NoPath)
        => audio_file[w] \notin DOMAIN files

\* the poll of worker w raised / the loop raised on FAILED
PollRaised == Raise(FallbackError(transcribe_except("ClientError")))
JobFailed == Raise(FallbackError(transcribe_except("Transcription job failed.")))

\* C11: transcribe_audio leaves its polling loop for the result fetch only in
\* a step that read COMPLETED, and raises out of the loop only in a step that
\* read FAILED or whose service call raised; a step that read any other
\* status stays in the loop; and no step leads from the loop back to the
\* job submission.
C11_PollUntilTerminal ==
    [][\A w \in Workers :
         pc[w] = "poll" =>
            /\ pc'[w] \in {"poll", "result", "done"}
            /\ pc'[w] = "result" => jobs[job_name[w]] = "COMPLETED"
            /\ pc'[w] = "done" =>
                  \/ transcript_result'[w] = JobFailed /\ jobs[job_name[w]] = "FAILED"
                  \/ transcript_result'[w] = PollRaised
            /\ (jobs[job_name[w]] \notin Terminal /\ pc'[w] # "poll")
                  => transcript_result'[w] = PollRaised
            /\ calls'[w]["start_job"] = 1]_vars

C11_Witness ==
    \E w \in Workers :
        /\ pc[w] = "result"
        /\ calls[w]["poll"] = 1
        /\ calls[w]["start_job"] = 1
        /\ jobs[job_name[w]] = "COMPLETED"

\* C12: when every accepted job eventually reaches COMPLETED or FAILED (and the
\* worker keeps running), a request that is in the polling loop eventually
\* terminates; and while the status it reads is not COMPLETED or FAILED the
\* loop is left only by a raising service call, whatever the clock says and
\* however often it has polled.
C12_TerminatesIffTerminal ==
    /\ \A w \in Workers : (pc[w] = "poll") ~> (pc[w] = "done")
    /\ [][\A w \in Workers :
            (pc[w] = "poll" /\ jobs[job_name[w]] \notin Terminal /\ pc'[w] # "poll")
            => transcript_result'[w] = PollRaised]_vars

C12_Witness ==
    \E w \in Workers :
        /\ pc[w] = "poll"
        /\ calls[w]["poll"] = 1
        /\ jobs[job_name[w]] = "IN_PROGRESS"
        /\ now = MaxTime

\* the items of type "pronunciation" of a result document, in order
Pronunciations(doc) ==
    IF "results" \notin DOMAIN doc THEN <<>>
    ELSE SelectSeq(doc.results.items, LAMBDA it : it.type = "pronunciation")

\* the k-th group of a list of pronunciation items: the start time of its
\* first word, then its words
GroupOf(words, k) ==
    LET lo == 5 * (k - 1) + 1
        hi == IF 5 * k < Len(words) THEN 5 * k ELSE Len(words)
    IN words[lo].start_time[1] \o ": "
         \o Join(" ", [i \in 1..(hi - lo + 1) |-> words[lo + i - 1].alternatives[1].content])

\* C13: for a result document with N pronunciation items among other items,
\* process_transcription_result returns ceil(N/5) groups, the k-th holding
\* words 5(k-1)+1 .. min(5k, N) in input order under the start time of the
\* first of them (so every group but the last has 5 words, the last 1 to 5,
\* and none is dropped); N = 0 gives the empty list.
C13_GroupsOfFive ==
    (fn = "process_transcription_result" /\ fn_out # NotCalled) =>
        LET words == Pronunciations(fn_in)
            N == Len(words)
        IN /\ fn_out.ok
           /\ Len(fn_out.value) = (N + 4) \div 5
           /\ \A k \in 1..Len(fn_out.value) : fn_out.value[k] = GroupOf(words, k)
           /\ N = 0 => fn_out.value = <<>>

C13_Witness ==
    /\ fn = "process_transcription_result"
    /\ "results" \in DOMAIN fn_in
    /\ Len(fn_in.results.items) = 9
    /\ Len(Pronunciations(fn_in)) = 7
    /\ fn_out = Return(<<"1.5: w1 w2 w3 w5 w6", "8.5: w8 w9">>)

\* C14: once get_video_details has run for a request, requests.get was called
\* exactly once; a response whose status is not 200, or whose document has no
\* items key or an empty items list, made it raise; every other response made
\* it return exactly title, description and channel (from channelTitle) of
\* the snippet of the first item.
C14_DetailsFromFirstItem ==
    \A w \in Workers :
        metadata_outcome[w] # NotCalled =>
            /\ calls[w]["metadata"] = 1
            /\ metadata_outcome[w].ok =>
                 LET response == metadata_outcome[w].value IN
                 IF \/ response.status_code # 200
                    \/ "items" \notin DOMAIN response.data
                    \/ response.data.items = <<>>
                 THEN ~metadata_result[w].ok
                 ELSE metadata_result[w] =
                        [ok |-> TRUE,
                         value |->
                           [title |-> response.data.items[1].snippet.title,
                            description |-> response.data.items[1].snippet.description,
                            channel |-> response.data.items[1].snippet.channelTitle]]

C14_Witness ==
    \E w \in Workers :
        /\ metadata_outcome[w].ok
        /\ metadata_outcome[w].value.status_code = 200
        /\ "items" \in DOMAIN metadata_outcome[w].value.data
        /\ Len(metadata_outcome[w].value.data.items) = 2
        /\ metadata_result[w]
             = Return([title |-> "T2", description |-> "D2", channel |-> "C2"])

\* str() of the start of a caption entry, written out
StartText(entry) ==
    CASE entry.start = 0 -> "0.0"
      [] entry.start = 5 -> "5.0"

\* C15: the list format_transcript returns has as many elements as its
\* argument has entries, and its i-th element is the start of the i-th entry,
\* a colon, a space and the text of the i-th entry.
C15_FormatKeepsEntries ==
    (fn = "format_transcript" /\ fn_out # NotCalled) =>
        /\ fn_out.ok
        /\ Len(fn_out.value) = Len(fn_in)
        /\ \A i \in 1..Len(fn_in) :
              fn_out.value[i] = StartText(fn_in[i]) \o ": " \o fn_in[i].text

C15_Witness ==
    /\ fn = "format_transcript"
    /\ fn_in = <<Entry(5, "world"), Entry(0, "a: b"), Entry(5, "world")>>
    /\ fn_out = Return(<<"5.0: world", "0.0: a: b", "5.0: world">>)

\* the steps of one request, in the order of fetch_video_info and
\* fetch_video_transcript
StepOrder ==
    <<"metadata", "captions", "download", "upload", "start_job", "poll",
      "result", "group">>

\* a step of worker w that makes the first call of a stage makes it after
\* every earlier stage and before every later one
InStepOrder(w) ==
    \A i \in 1..Len(StepOrder) :
        (calls[w][StepOrder[i]] = 0 /\ calls'[w][StepOrder[i]] > 0) =>
            /\ \A j \in 1..(i - 1) : calls'[w][StepOrder[j]] > 0
            /\ \A j \in (i + 1)..Len(StepOrder) : calls[w][StepOrder[j]] = 0

\* C16: within one request every stage is first called after all the stages
\* before it and before all the stages after it; no stage but the poll is
\* called twice; between the return of download_audio and the upload the path
\* it returned is an existing file; the job is submitted only after
\* upload_to_s3 returned a URI; the result is fetched, and the grouping runs,
\* only for a job whose status was read as COMPLETED.
C16_StagesInOrder ==
    /\ [][\A w \in Workers : InStepOrder(w)]_vars
    /\ [](\A w \in Workers :
            /\ \A s \in Stages : calls[w][s] <= 1
            /\ pc[w] \in {"exists", "upload"} =>
                 /\ calls[w]["download"] = 1
                 /\ audio_file[w] \in DOMAIN files
            /\ calls[w]["upload"] > 0 => audio_file[w] # NoPath
            /\ (pc[w] = "start_job" \/ calls[w]["start_job"] > 0) =>
                 /\ calls[w]["upload"] = 1
                 /\ s3_uri[w] = "s3://learningmodeai-transcription/"
                                  \o audio_file[w].base
            /\ (pc[w] = "result" \/ calls[w]["result"] > 0) =>
                 /\ calls[w]["poll"] = 1
                 /\ jobs[job_name[w]] = "COMPLETED"
            /\ calls[w]["group"] > 0 => calls[w]["result"] = 1)

C16_Witness ==
    \E w \in Workers :
        /\ pc[w] = "done"
        /\ \A s \in Stages : calls[w][s] = 1
        /\ resp[w].status = 200
        /\ jobs[job_name[w]] = "COMPLETED"

\* C17: a request that is about to submit its transcription job does so under
\* a name no earlier attempt has used, also when the earlier attempt was for
\* the same video identifier.
C17_JobNameUnused ==
    \A w \in Workers : pc[w] = "start_job" => job_name[w] \notin DOMAIN jobs

\* C18: while a request holds the path download_audio returned to it (it has
\* yet to check it, upload it or delete it), the file at that path exists and
\* is the one this request created.
C18_FileOwnedByRequest ==
    \A w \in Workers :
        pc[w] \in {"exists", "upload", "remove"} =>
            /\ audio_file[w] \in DOMAIN files
            /\ files[audio_file[w]] = req[w]

\* C19: a request whose object was stored goes on to submit the transcription
\* job, whether or not os.remove succeeded.
C19_StoredObjectReachesJob ==
    \A w \in Workers :
        (pc[w] = "done" /\ s3_uri[w] # "") => calls[w]["start_job"] = 1

\* C20: the URI upload_to_s3 returns is s3://, the bucket, a slash and the key
\* of an object that is in the storage service after the call.
C20_UriNamesStoredObject ==
    (fn = "upload_to_s3" /\ fn_out.ok) =>
        \E k \in DOMAIN bucket : fn_out.value = "s3://" \o k[1] \o "/" \o k[2]

====
